---- MODULE Spec2Model ----
(***************************************************************************)
(* Address validation engine of validate-address.                          *)
(*                                                                         *)
(* Two implementations are modelled:                                       *)
(*   - the Go engine (validator.go, carried in README.md from line 311):   *)
(*     cleanAddress -> parseAddress -> standardizeAddress ->               *)
(*     validateComponents, driven by ValidateAndStandardize;               *)
(*   - the TypeScript engine (addressValidator.ts): validateAddress.       *)
(*                                                                         *)
(* A string is a sequence of one-character strings.  The input alphabet is *)
(* ASCII, so a byte, a rune and a UTF-16 unit are the same thing and Go's  *)
(* len() counts characters.                                                *)
(***************************************************************************)
EXTENDS Integers, Sequences, FiniteSets, TLC

(***************************************************************************)
(* Characters and character classes                                        *)
(***************************************************************************)
Chars(str) == [i \in 1..Len(str) |-> SubSeq(str, i, i)]

LowerSet == {Chars("abcdefghijklmnopqrstuvwxyz")[i] : i \in 1..26}
UpperSet == {Chars("ABCDEFGHIJKLMNOPQRSTUVWXYZ")[i] : i \in 1..26}
DigitSet == {Chars("0123456789")[i] : i \in 1..10}
LetterSet == LowerSet \cup UpperSet
\* \w of Go's regexp and of JavaScript: [0-9A-Za-z_]
WordSet == LetterSet \cup DigitSet \cup {"_"}
\* \s restricted to the alphabet of the inputs: space and tab
SpaceSet == {" ", "\t"}

UpperOf ==
  LET lowers == Chars("abcdefghijklmnopqrstuvwxyz")
      uppers == Chars("ABCDEFGHIJKLMNOPQRSTUVWXYZ")
  IN [c \in LowerSet |-> uppers[CHOOSE i \in 1..26 : lowers[i] = c]]
LowerOf == [c \in UpperSet |-> CHOOSE d \in LowerSet : UpperOf[d] = c]

ToUpperC(c) == IF c \in LowerSet THEN UpperOf[c] ELSE c
ToLowerC(c) == IF c \in UpperSet THEN LowerOf[c] ELSE c

\* strings.ToUpper / strings.ToLower / String.prototype.toLowerCase
ToUpper(s) == [i \in 1..Len(s) |-> ToUpperC(s[i])]
ToLower(s) == [i \in 1..Len(s) |-> ToLowerC(s[i])]

\* strings.EqualFold on ASCII
EqualFold(a, b) == ToLower(a) = ToLower(b)

\* a local: `value` is computed once and handed to the rest of the body
Let(value, In(_)) == In(value)

(***************************************************************************)
(* String helpers                                                          *)
(***************************************************************************)
\* last index j >= i-1 such that s[i..j] lies inside the class C.  A long
\* run is crossed a block at a time to keep the recursion shallow.
RECURSIVE RunEnd(_, _, _)
RunEnd(s, i, C) ==
  IF i + 31 <= Len(s) /\ \A j \in i..(i + 31) : s[j] \in C
  THEN RunEnd(s, i + 32, C)
  ELSE IF i <= Len(s) /\ s[i] \in C THEN RunEnd(s, i + 1, C)
  ELSE i - 1

\* last index j >= i-1 such that s[i..j] lies outside the class C
RECURSIVE RunEndNot(_, _, _)
RunEndNot(s, i, C) ==
  IF i + 31 <= Len(s) /\ \A j \in i..(i + 31) : s[j] \notin C
  THEN RunEndNot(s, i + 32, C)
  ELSE IF i <= Len(s) /\ s[i] \notin C THEN RunEndNot(s, i + 1, C)
  ELSE i - 1

\* first index j <= i+1 such that s[j..i] lies inside the class C
RECURSIVE RunStart(_, _, _)
RunStart(s, i, C) ==
  IF i - 31 >= 1 /\ \A j \in (i - 31)..i : s[j] \in C
  THEN RunStart(s, i - 32, C)
  ELSE IF i >= 1 /\ s[i] \in C THEN RunStart(s, i - 1, C)
  ELSE i + 1

\* strings.TrimSpace / String.prototype.trim
TrimSpace(s) ==
  LET a == RunEnd(s, 1, SpaceSet) + 1
      b == RunStart(s, Len(s), SpaceSet) - 1
  IN IF a > b THEN << >> ELSE SubSeq(s, a, b)

\* strings.Fields: the maximal runs of non-whitespace
RECURSIVE FieldsFrom(_, _, _)
FieldsFrom(s, i, C) ==
  LET a == RunEnd(s, i, C) + 1
      b == RunEndNot(s, a, C)
  IN IF a > Len(s) THEN << >>
     ELSE <<SubSeq(s, a, b)>> \o FieldsFrom(s, b + 1, C)

Fields(s) == FieldsFrom(s, 1, SpaceSet)

\* strings.Join / Array.prototype.join
RECURSIVE Join(_, _)
Join(parts, sep) ==
  IF parts = << >> THEN << >>
  ELSE IF Len(parts) = 1 THEN parts[1]
  ELSE parts[1] \o sep \o Join(Tail(parts), sep)

\* regexp `\s+` -> " " (ReplaceAllString): every maximal whitespace run
\* becomes one space
CollapseSpaces(s) ==
  LET marked == [i \in 1..Len(s) |->
                   IF s[i] \in SpaceSet
                   THEN (IF i > 1 /\ s[i-1] \in SpaceSet THEN "" ELSE " ")
                   ELSE s[i]]
  IN SelectSeq(marked, LAMBDA c : c # "")

\* is position p (between s[p-1] and s[p]) a \b word boundary
IsWordAt(s, p) == p >= 1 /\ p <= Len(s) /\ s[p] \in WordSet
WordBoundary(s, p) == IsWordAt(s, p - 1) # IsWordAt(s, p)

AllIn(s, a, b, C) == \A i \in a..b : s[i] \in C

(***************************************************************************)
(* Lookup tables of the Go engine                                          *)
(***************************************************************************)
\* getStateAbbreviations: code -> full name, 50 states and DC
StateTable ==
  << <<"AL", "Alabama">>, <<"AK", "Alaska">>, <<"AZ", "Arizona">>,
     <<"AR", "Arkansas">>, <<"CA", "California">>, <<"CO", "Colorado">>,
     <<"CT", "Connecticut">>, <<"DE", "Delaware">>, <<"FL", "Florida">>,
     <<"GA", "Georgia">>, <<"HI", "Hawaii">>, <<"ID", "Idaho">>,
     <<"IL", "Illinois">>, <<"IN", "Indiana">>, <<"IA", "Iowa">>,
     <<"KS", "Kansas">>, <<"KY", "Kentucky">>, <<"LA", "Louisiana">>,
     <<"ME", "Maine">>, <<"MD", "Maryland">>, <<"MA", "Massachusetts">>,
     <<"MI", "Michigan">>, <<"MN", "Minnesota">>, <<"MS", "Mississippi">>,
     <<"MO", "Missouri">>, <<"MT", "Montana">>, <<"NE", "Nebraska">>,
     <<"NV", "Nevada">>, <<"NH", "New Hampshire">>, <<"NJ", "New Jersey">>,
     <<"NM", "New Mexico">>, <<"NY", "New York">>,
     <<"NC", "North Carolina">>, <<"ND", "North Dakota">>, <<"OH", "Ohio">>,
     <<"OK", "Oklahoma">>, <<"OR", "Oregon">>, <<"PA", "Pennsylvania">>,
     <<"RI", "Rhode Island">>, <<"SC", "South Carolina">>,
     <<"SD", "South Dakota">>, <<"TN", "Tennessee">>, <<"TX", "Texas">>,
     <<"UT", "Utah">>, <<"VT", "Vermont">>, <<"VA", "Virginia">>,
     <<"WA", "Washington">>, <<"WV", "West Virginia">>,
     <<"WI", "Wisconsin">>, <<"WY", "Wyoming">>,
     <<"DC", "District of Columbia">> >>

\* the map as a set of (key, value) pairs of character sequences
getStateAbbreviations ==
  {<<Chars(StateTable[i][1]), Chars(StateTable[i][2])>> :
     i \in 1..Len(StateTable)}

StateCodes == {e[1] : e \in getStateAbbreviations}
FoldedStateNames == {ToLower(e[2]) : e \in getStateAbbreviations}

\* getStreetSuffixes, in the order of the source
getStreetSuffixes ==
  << <<Chars("St"), Chars("Street")>>, <<Chars("Ave"), Chars("Avenue")>>,
     <<Chars("Blvd"), Chars("Boulevard")>>, <<Chars("Rd"), Chars("Road")>>,
     <<Chars("Dr"), Chars("Drive")>>, <<Chars("Ct"), Chars("Court")>>,
     <<Chars("Ln"), Chars("Lane")>>, <<Chars("Pl"), Chars("Place")>>,
     <<Chars("Pkwy"), Chars("Parkway")>>, <<Chars("Cir"), Chars("Circle")>>,
     <<Chars("Way"), Chars("Way")>>, <<Chars("Trl"), Chars("Trail")>>,
     <<Chars("Ter"), Chars("Terrace")>> >>

\* getCommonMisspellings with one more entry, whose key is the replacement
\* of another entry
getCommonMisspellingsWithInverse ==
  << <<Chars("Steet"), Chars("Street")>>, <<Chars("Streat"), Chars("Street")>>,
     <<Chars("Streeet"), Chars("Street")>>, <<Chars("Avenu"), Chars("Avenue")>>,
     <<Chars("Aveune"), Chars("Avenue")>>, <<Chars("Blvd"), Chars("Boulevard")>>,
     <<Chars("Rd"), Chars("Road")>>, <<Chars("Dr"), Chars("Drive")>>,
     <<Chars("Ct"), Chars("Court")>>, <<Chars("Ln"), Chars("Lane")>>,
     <<Chars("Pl"), Chars("Place")>>, <<Chars("Pkwy"), Chars("Parkway")>>,
     <<Chars("Road"), Chars("Rd")>> >>

\* getCommonMisspellings, in the order of the source
getCommonMisspellings ==
  << <<Chars("Steet"), Chars("Street")>>, <<Chars("Streat"), Chars("Street")>>,
     <<Chars("Streeet"), Chars("Street")>>, <<Chars("Avenu"), Chars("Avenue")>>,
     <<Chars("Aveune"), Chars("Avenue")>>, <<Chars("Blvd"), Chars("Boulevard")>>,
     <<Chars("Rd"), Chars("Road")>>, <<Chars("Dr"), Chars("Drive")>>,
     <<Chars("Ct"), Chars("Court")>>, <<Chars("Ln"), Chars("Lane")>>,
     <<Chars("Pl"), Chars("Place")>>, <<Chars("Pkwy"), Chars("Parkway")>> >>

(***************************************************************************)
(* Go engine: cleanAddress                                                 *)
(***************************************************************************)
MaxAddressLen == 500
MinAddressLen == 5

\* the characters `[^\w\s\-\.#/,]` does not remove
AllowedSet == WordSet \cup SpaceSet \cup {"-", ".", "#", "/", ","}

\* cleanAddress without its length limit
cleanAddressNoLengthLimit(address) ==
  LET trimmed == TrimSpace(address)
      collapsed == CollapseSpaces(trimmed)
      stripped == SelectSeq(collapsed, LAMBDA c : c \in AllowedSet)
  IN IF trimmed = << >> THEN << >>
     ELSE IF Len(TrimSpace(stripped)) < MinAddressLen THEN << >>
     ELSE stripped

cleanAddress(address) ==
  IF Len(address) > MaxAddressLen THEN << >>
  ELSE LET trimmed == TrimSpace(address)
           collapsed == CollapseSpaces(trimmed)
           stripped == SelectSeq(collapsed, LAMBDA c : c \in AllowedSet)
       IN IF trimmed = << >> THEN << >>
          ELSE IF Len(TrimSpace(stripped)) < MinAddressLen THEN << >>
          ELSE stripped

(***************************************************************************)
(* Go engine: the two anchored patterns of parseAddress                    *)
(*                                                                         *)
(* Go's regexp gives the leftmost-first match: the submatches are those of *)
(* the first success of a backtracking search that tries a greedy operator *)
(* longest first, a lazy one shortest first and `(...)?` present first.    *)
(* The matcher below makes the same choices in the same order.             *)
(*                                                                         *)
(* full:   ^(\d+)\s+([^,]+?)(?:\s+(apt|apartment|unit|ste|suite|#)\s*      *)
(*          ([^,]+?))?\s*,?\s*([^,]+?)\s*,?\s*([a-z]{2})\s+(\d{5})         *)
(*          (?:-(\d{4}))?$                                                 *)
(* simple: the same without the unit clause                                *)
(***************************************************************************)
\* first index j <= i+1 such that s[j..i] lies outside the class C
RECURSIVE RunStartNot(_, _, _)
RunStartNot(s, i, C) ==
  IF i - 31 >= 1 /\ \A j \in (i - 31)..i : s[j] \notin C
  THEN RunStartNot(s, i - 32, C)
  ELSE IF i >= 1 /\ s[i] \notin C THEN RunStartNot(s, i - 1, C)
  ELSE i + 1

\* (\d{5})(?:-(\d{4}))?$ : where the ZIP starts, 0 when the text does not
\* end that way.  The two alternatives exclude each other.
TailZipStart(s) ==
  LET n == Len(s)
  IN IF n >= 10 /\ s[n-4] = "-" /\ AllIn(s, n-3, n, DigitSet)
        /\ AllIn(s, n-9, n-5, DigitSet) THEN n - 9
     ELSE IF n >= 5 /\ AllIn(s, n-4, n, DigitSet) THEN n - 4
     ELSE 0

\* ([a-z]{2})\s+ before the ZIP: where the state starts, 0 when no match
TailStateStart(s) ==
  LET z == TailZipStart(s)
      w == RunStart(s, z - 1, SpaceSet)
  IN IF z = 0 \/ w > z - 1 \/ w < 3 THEN 0
     ELSE IF AllIn(s, w - 2, w - 1, LetterSet) THEN w - 2
     ELSE 0

\* the context of one match attempt: the text s, the start h of the state,
\* the first position P0 from which s[P0..h-1] matches \s*,?\s* and the
\* index LC of the last comma before P0 (0 when there is none)
MatchContext(s) ==
  LET h == TailStateStart(s)
      w1 == RunStart(s, h - 1, SpaceSet)
      P0 == IF w1 >= 2 /\ s[w1-1] = "," THEN RunStart(s, w1 - 2, SpaceSet)
            ELSE w1
  IN [s |-> s, h |-> h, P0 |-> P0,
      LC |-> RunStartNot(s, P0 - 1, {","}) - 1]

\* \s*,?\s* from p: the largest position the separator can end before
SepMaxEnd(s, p) ==
  LET e1 == RunEnd(s, p, SpaceSet)
  IN IF e1 + 1 <= Len(s) /\ s[e1+1] = ","
     THEN RunEnd(s, e1 + 2, SpaceSet) + 1
     ELSE e1 + 1

\* ([^,]+?)\s*,?\s* up to the state: can the city start at f
OkCity(cx, f) ==
  /\ f >= 1
  /\ f <= cx.h - 1
  /\ IF f <= cx.P0 - 1 THEN f > cx.LC ELSE cx.s[f] # ","

\* lazy: the city ends as early as the rest allows
CityEnd(cx, f) == IF f <= cx.P0 - 1 THEN cx.P0 - 1 ELSE f

\* greedy separator, then the city: the largest start f in lo..f that works
RECURSIVE CityStartFrom(_, _, _)
CityStartFrom(cx, f, lo) ==
  IF f < lo THEN 0
  ELSE IF OkCity(cx, f) THEN f
  ELSE CityStartFrom(cx, f - 1, lo)

\* \s*,?\s*([^,]+?)... from position p: start of the city, 0 when no match
CityStart(cx, p) == CityStartFrom(cx, SepMaxEnd(cx.s, p), p)

UnitKeywords ==
  << Chars("apt"), Chars("apartment"), Chars("unit"), Chars("ste"),
     Chars("suite"), Chars("#") >>

\* case-insensitive match of the literal w at position k
MatchesAt(s, k, w) ==
  /\ k + Len(w) - 1 <= Len(s)
  /\ \A j \in 1..Len(w) : ToLowerC(s[k + j - 1]) = ToLowerC(w[j])

NoUnit == [d |-> 0, e |-> 0, k |-> 0, q |-> 0]

\* lazy unit value: the smallest end e in e..emax after which the rest matches
RECURSIVE UnitValueEnd(_, _, _)
UnitValueEnd(cx, e, emax) ==
  IF e > emax THEN 0
  ELSE IF CityStart(cx, e + 1) # 0 THEN e
  ELSE UnitValueEnd(cx, e + 1, emax)

\* greedy \s* before the unit value: the largest start d in dmin..d that works
RECURSIVE UnitValueFrom(_, _, _)
UnitValueFrom(cx, d, dmin) ==
  IF d < dmin THEN <<0, 0>>
  ELSE LET e == UnitValueEnd(cx, d, RunEndNot(cx.s, d, {","}))
       IN IF e # 0 THEN <<d, e>> ELSE UnitValueFrom(cx, d - 1, dmin)

\* the alternatives of the keyword, in the order of the pattern
RECURSIVE UnitFrom(_, _, _)
UnitFrom(cx, k, i) ==
  IF i > Len(UnitKeywords) THEN NoUnit
  ELSE IF MatchesAt(cx.s, k, UnitKeywords[i])
       THEN LET q == k + Len(UnitKeywords[i])
                de == UnitValueFrom(cx, RunEnd(cx.s, q, SpaceSet) + 1, q)
            IN IF de[1] # 0
               THEN [d |-> de[1], e |-> de[2], k |-> k, q |-> q - 1]
               ELSE UnitFrom(cx, k, i + 1)
       ELSE UnitFrom(cx, k, i + 1)

\* (?:\s+(keyword)\s*([^,]+?))? after a street ending at c.  A keyword starts
\* with a non-space character, so \s+ takes the whole whitespace run.
UnitAfter(cx, c) ==
  LET k == RunEnd(cx.s, c + 1, SpaceSet) + 1
  IN IF k = c + 1 THEN NoUnit ELSE UnitFrom(cx, k, 1)

\* can the street end at c
OkStreetEnd(cx, c, withUnit) ==
  \/ withUnit /\ UnitAfter(cx, c).d # 0
  \/ CityStart(cx, c + 1) # 0

\* lazy street: the smallest end c in c..cmax
RECURSIVE StreetEnd(_, _, _, _)
StreetEnd(cx, c, cmax, withUnit) ==
  IF c > cmax THEN 0
  ELSE IF OkStreetEnd(cx, c, withUnit) THEN c
  ELSE StreetEnd(cx, c + 1, cmax, withUnit)

\* greedy \s+ after the number: the largest street start b in bmin..b
RECURSIVE StreetFrom(_, _, _, _)
StreetFrom(cx, b, bmin, withUnit) ==
  IF b < bmin THEN <<0, 0>>
  ELSE LET c == StreetEnd(cx, b, RunEndNot(cx.s, b, {","}), withUnit)
       IN IF c # 0 THEN <<b, c>>
          ELSE StreetFrom(cx, b - 1, bmin, withUnit)

NoMatch == << >>

\* the positions of a match: number 1..a, street b..c, unit u, city f..g,
\* state h..h+1, ZIP z..z+4; NoMatch when the pattern does not match
MatchPositions(s, withUnit) ==
  Let(RunEnd(s, 1, DigitSet), LAMBDA a :
  Let(MatchContext(s), LAMBDA cx :
    IF a = 0 \/ cx.h = 0 THEN NoMatch
    ELSE
  Let(StreetFrom(cx, RunEnd(s, a + 1, SpaceSet) + 1, a + 2, withUnit),
      LAMBDA bc :
    IF bc[1] = 0 THEN NoMatch
    ELSE
  Let(IF withUnit THEN UnitAfter(cx, bc[2]) ELSE NoUnit, LAMBDA u :
  Let(CityStart(cx, (IF u.d # 0 THEN u.e ELSE bc[2]) + 1), LAMBDA f :
    [a |-> a, b |-> bc[1], c |-> bc[2], u |-> u, f |-> f,
     g |-> CityEnd(cx, f), h |-> cx.h, z |-> TailZipStart(s)])))))

Sub(s, a, b) == IF a = 0 \/ a > b THEN << >> ELSE SubSeq(s, a, b)

\* the ZIP+4 extension captured by (?:-(\d{4}))?
ZipExt(s, z) == IF z + 4 < Len(s) THEN SubSeq(s, z + 6, z + 9) ELSE << >>

\* the full pattern with its unit clause made mandatory
FullPatternMatchUnitRequired(s) ==
  Let(MatchPositions(s, TRUE), LAMBDA m :
    IF m = NoMatch THEN NoMatch
    ELSE IF m.u.d = 0 THEN NoMatch
    ELSE [i \in 0..8 |->
            CASE i = 0 -> s
              [] i = 1 -> Sub(s, 1, m.a)
              [] i = 2 -> Sub(s, m.b, m.c)
              [] i = 3 -> Sub(s, m.u.k, m.u.q)
              [] i = 4 -> Sub(s, m.u.d, m.u.e)
              [] i = 5 -> Sub(s, m.f, m.g)
              [] i = 6 -> Sub(s, m.h, m.h + 1)
              [] i = 7 -> Sub(s, m.z, m.z + 4)
              [] i = 8 -> ZipExt(s, m.z)])

\* FindStringSubmatch of the full pattern: matches[0..8], or NoMatch
FullPatternMatch(s) ==
  Let(MatchPositions(s, TRUE), LAMBDA m :
    IF m = NoMatch THEN NoMatch
    ELSE [i \in 0..8 |->
            CASE i = 0 -> s
              [] i = 1 -> Sub(s, 1, m.a)
              [] i = 2 -> Sub(s, m.b, m.c)
              [] i = 3 -> Sub(s, m.u.k, m.u.q)
              [] i = 4 -> Sub(s, m.u.d, m.u.e)
              [] i = 5 -> Sub(s, m.f, m.g)
              [] i = 6 -> Sub(s, m.h, m.h + 1)
              [] i = 7 -> Sub(s, m.z, m.z + 4)
              [] i = 8 -> ZipExt(s, m.z)])

\* FindStringSubmatch of the simple pattern: matches[0..6], or NoMatch
SimplePatternMatch(s) ==
  Let(MatchPositions(s, FALSE), LAMBDA m :
    IF m = NoMatch THEN NoMatch
    ELSE [i \in 0..6 |->
            CASE i = 0 -> s
              [] i = 1 -> Sub(s, 1, m.a)
              [] i = 2 -> Sub(s, m.b, m.c)
              [] i = 3 -> Sub(s, m.f, m.g)
              [] i = 4 -> Sub(s, m.h, m.h + 1)
              [] i = 5 -> Sub(s, m.z, m.z + 4)
              [] i = 6 -> ZipExt(s, m.z)])

(***************************************************************************)
(* Go engine: the parsers                                                  *)
(***************************************************************************)
\* a nil pointer
Nil == [nil |-> TRUE]

\* the zero value of the struct ValidatedAddress
EmptyAddress ==
  [StreetNumber |-> << >>, StreetName |-> << >>, Unit |-> << >>,
   City |-> << >>, State |-> << >>, ZipCode |-> << >>, ZipPlus4 |-> << >>,
   County |-> << >>, FullAddress |-> << >>]

parseFullAddress(matches) ==
  [EmptyAddress EXCEPT !.StreetNumber = matches[1],
                       !.StreetName = matches[2],
                       !.Unit = matches[4],
                       !.City = matches[5],
                       !.State = ToUpper(matches[6]),
                       !.ZipCode = matches[7],
                       !.ZipPlus4 = matches[8]]

parseSimpleAddress(matches) ==
  [EmptyAddress EXCEPT !.StreetNumber = matches[1],
                       !.StreetName = matches[2],
                       !.City = matches[3],
                       !.State = ToUpper(matches[4]),
                       !.ZipCode = matches[5],
                       !.ZipPlus4 = matches[6]]

isState(s) ==
  LET u == ToUpper(TrimSpace(s))
  IN \/ u \in StateCodes
     \/ ToLower(u) \in FoldedStateNames

isValidState(state) == ToUpper(state) \in StateCodes

\* ^\d{5}(-\d{4})?$
isZipCode(s) ==
  \/ Len(s) = 5 /\ AllIn(s, 1, 5, DigitSet)
  \/ Len(s) = 10 /\ AllIn(s, 1, 5, DigitSet) /\ s[6] = "-"
       /\ AllIn(s, 7, 10, DigitSet)

isValidZipCode(zipCode) == isZipCode(zipCode)

\* the scan for a state taken from the last element backwards
LastStateFirst(parts, i) ==
  LET states == {j \in i..Len(parts) : isState(parts[j])}
  IN IF states = {} THEN 0
     ELSE CHOOSE j \in states : \A k \in states : j >= k

\* index of the first element from i on that is a state, 0 when none
RECURSIVE FirstState(_, _)
FirstState(parts, i) ==
  IF i > Len(parts) THEN 0
  ELSE IF isState(parts[i]) THEN i
  ELSE FirstState(parts, i + 1)

\* index of the last element up to i that is ZIP-shaped, 0 when none
RECURSIVE LastZip(_, _)
LastZip(parts, i) ==
  IF i < 1 THEN 0
  ELSE IF isZipCode(parts[i]) THEN i
  ELSE LastZip(parts, i - 1)

\* the first loop of parsePartialAddress (indices are 1-based here)
PartialStateScan(result, parts) ==
  LET i == FirstState(parts, 1)
  IN IF i = 0 THEN result
     ELSE [result EXCEPT
             !.State = ToUpper(parts[i]),
             !.City = IF i > 1 THEN Join(SubSeq(parts, 1, i - 1), <<" ">>)
                      ELSE @,
             !.ZipCode = IF i < Len(parts) /\ isZipCode(parts[i+1])
                         THEN parts[i+1] ELSE @]

\* the second loop of parsePartialAddress
PartialZipScan(result, parts) ==
  LET i == LastZip(parts, Len(parts))
      withState == i > 1 /\ isState(parts[i-1])
  IN IF result.StreetNumber = << >> \/ result.State # << >> \/ i = 0
     THEN result
     ELSE [result EXCEPT
             !.ZipCode = parts[i],
             !.State = IF withState THEN ToUpper(parts[i-1]) ELSE @,
             !.City = IF withState /\ i > 2
                      THEN Join(SubSeq(parts, 1, i - 2), <<" ">>) ELSE @]

\* parsePartialAddress assigning the street name whenever a street number
\* was found
parsePartialAddressStreetAlways(address) ==
  LET fields == Fields(address)
      hasNumber == fields[1][1] \in DigitSet
      parts == IF hasNumber THEN Tail(fields) ELSE fields
      r0 == IF hasNumber THEN [EmptyAddress EXCEPT !.StreetNumber = fields[1]]
            ELSE EmptyAddress
      r1 == PartialStateScan(r0, parts)
      r2 == PartialZipScan(r1, parts)
  IN IF Len(fields) < 2 THEN Nil
     ELSE IF r2.StreetNumber # << >>
          THEN [r2 EXCEPT !.StreetName = Join(parts, <<" ">>)]
          ELSE r2

parsePartialAddress(address) ==
  LET fields == Fields(address)
      hasNumber == fields[1][1] \in DigitSet
      parts == IF hasNumber THEN Tail(fields) ELSE fields
      r0 == IF hasNumber THEN [EmptyAddress EXCEPT !.StreetNumber = fields[1]]
            ELSE EmptyAddress
      r1 == PartialStateScan(r0, parts)
      r2 == PartialZipScan(r1, parts)
  IN IF Len(fields) < 2 THEN Nil
     ELSE IF r2.StreetNumber # << >> /\ r2.City = << >> /\ r2.State = << >>
          THEN [r2 EXCEPT !.StreetName = Join(parts, <<" ">>)]
          ELSE r2

\* which strategy parseAddress returns from
ParseStrategy(address) ==
  IF FullPatternMatch(address) # NoMatch THEN "full"
  ELSE IF SimplePatternMatch(address) # NoMatch THEN "simple"
  ELSE "partial"

\* parseAddress trying the simple pattern before the full one
parseAddressSimpleFirst(address) ==
  IF SimplePatternMatch(address) # NoMatch
  THEN parseSimpleAddress(SimplePatternMatch(address))
  ELSE IF FullPatternMatch(address) # NoMatch
       THEN parseFullAddress(FullPatternMatch(address))
       ELSE parsePartialAddress(address)

parseAddress(address) ==
  IF FullPatternMatch(address) # NoMatch
  THEN parseFullAddress(FullPatternMatch(address))
  ELSE IF SimplePatternMatch(address) # NoMatch
       THEN parseSimpleAddress(SimplePatternMatch(address))
       ELSE parsePartialAddress(address)

(***************************************************************************)
(* Go engine: standardization                                              *)
(***************************************************************************)
toTitleCase(s) ==
  LET words == Fields(ToLower(s))
  IN Join([i \in 1..Len(words) |->
             <<ToUpperC(words[i][1])>> \o Tail(words[i])], <<" ">>)

\* does `(?i)\b` + key + `\b` match at position i
MatchWordAt(s, i, key) ==
  /\ WordBoundary(s, i)
  /\ MatchesAt(s, i, key)
  /\ WordBoundary(s, i + Len(key))

\* ReplaceAllString of `(?i)\b` + key + `\b`: the non-overlapping matches,
\* left to right.  The keys are letters only, so QuoteMeta changes nothing.
RECURSIVE ReplaceWordFrom(_, _, _, _)
ReplaceWordFrom(s, i, key, full) ==
  LET found == {j \in i..Len(s) : MatchWordAt(s, j, key)}
      m == CHOOSE j \in found : \A k \in found : j <= k
  IN IF found = {} THEN SubSeq(s, i, Len(s))
     ELSE SubSeq(s, i, m - 1) \o full
            \o ReplaceWordFrom(s, m + Len(key), key, full)

\* does `(?i)\b` + key + `\b` match somewhere in s
HasWord(s, key) == \E j \in 1..Len(s) : MatchWordAt(s, j, key)

\* One `for ... range table` loop.  Go leaves the iteration order of a map
\* unspecified, so the loop may visit the entries in any order: the set of
\* the strings it can end with, `remaining` being the entries not visited
\* yet.  An entry that does not match when it is visited changes nothing,
\* so only two choices matter: which of the matching entries is visited
\* first, and which of the entries that match only after its replacement
\* were already visited before it.
RECURSIVE RangeReplace(_, _, _)
RangeReplace(s, table, remaining) ==
  LET matching == {e \in remaining : HasWord(s, table[e][1])}
  IN IF matching = {} THEN {s}
     ELSE UNION
       {Let(ReplaceWordFrom(s, 1, table[e][1], table[e][2]), LAMBDA s2 :
          UNION {RangeReplace(s2, table, remaining \ ({e} \cup visited)) :
                   visited \in SUBSET {x \in remaining \ matching :
                                         HasWord(s2, table[x][1])}}) :
          e \in matching}

\* the results standardizeStreetName can return
standardizeStreetName(streetName) ==
  UNION {RangeReplace(s, getCommonMisspellings, DOMAIN getCommonMisspellings) :
           s \in RangeReplace(toTitleCase(TrimSpace(streetName)),
                              getStreetSuffixes, DOMAIN getStreetSuffixes)}

standardizeCity(city) == toTitleCase(TrimSpace(city))

\* the results standardizeState can return: the loop returns at the first
\* entry it visits whose full name matches
\* standardizeState comparing the full names letter for letter
standardizeStateCaseSensitive(state) ==
  LET st == TrimSpace(ToUpper(state))
      hits == {e \in getStateAbbreviations : st = e[2]}
  IN IF st \in StateCodes THEN {st}
     ELSE IF hits # {} THEN {e[1] : e \in hits}
     ELSE {st}

standardizeState(state) ==
  LET st == TrimSpace(ToUpper(state))
      hits == IF ToLower(st) \in FoldedStateNames
              THEN {e \in getStateAbbreviations : EqualFold(st, e[2])}
              ELSE {}
  IN IF st \in StateCodes THEN {st}
     ELSE IF hits # {} THEN {e[1] : e \in hits}
     ELSE {st}

\* buildFullAddress appending the city clause even when the city is empty
buildFullAddressKeepEmptyCity(addr) ==
  LET streetPart ==
        IF addr.StreetNumber # << >> /\ addr.StreetName # << >>
        THEN <<addr.StreetNumber \o <<" ">> \o addr.StreetName \o
                 (IF addr.Unit # << >> THEN <<" ">> \o addr.Unit ELSE << >>)>>
        ELSE << >>
      statePart ==
        IF addr.State # << >>
        THEN <<addr.State \o
                 (IF addr.ZipCode # << >>
                  THEN <<" ">> \o addr.ZipCode \o
                         (IF addr.ZipPlus4 # << >>
                          THEN <<"-">> \o addr.ZipPlus4 ELSE << >>)
                  ELSE << >>)>>
        ELSE << >>
  IN Join(streetPart \o <<addr.City>> \o statePart, <<",", " ">>)

buildFullAddress(addr) ==
  LET streetPart ==
        IF addr.StreetNumber # << >> /\ addr.StreetName # << >>
        THEN <<addr.StreetNumber \o <<" ">> \o addr.StreetName \o
                 (IF addr.Unit # << >> THEN <<" ">> \o addr.Unit ELSE << >>)>>
        ELSE << >>
      cityPart == IF addr.City # << >> THEN <<addr.City>> ELSE << >>
      statePart ==
        IF addr.State # << >>
        THEN <<addr.State \o
                 (IF addr.ZipCode # << >>
                  THEN <<" ">> \o addr.ZipCode \o
                         (IF addr.ZipPlus4 # << >>
                          THEN <<"-">> \o addr.ZipPlus4 ELSE << >>)
                  ELSE << >>)>>
        ELSE << >>
  IN Join(streetPart \o cityPart \o statePart, <<",", " ">>)

\* the records standardizeAddress can return
standardizeAddress(addr) ==
  IF addr = Nil THEN {Nil}
  ELSE {LET a == [addr EXCEPT !.StreetName = street, !.City = city,
                              !.State = state]
        IN [a EXCEPT !.FullAddress = buildFullAddress(a)] :
          street \in (IF addr.StreetName # << >>
                      THEN standardizeStreetName(addr.StreetName)
                      ELSE {addr.StreetName}),
          city \in {IF addr.City # << >> THEN standardizeCity(addr.City)
                    ELSE addr.City},
          state \in (IF addr.State # << >> THEN standardizeState(addr.State)
                     ELSE {addr.State})}

(***************************************************************************)
(* Go engine: validateComponents (the counting policy)                     *)
(***************************************************************************)
StatusValid == "valid"
StatusCorrected == "corrected"
StatusUnverifiable == "unverifiable"

MaxMissing == 2

\* missingComponents without the check of a ZIP code that is present
missingComponentsZipUnchecked(addr) ==
  (IF addr.StreetNumber = << >> THEN <<Chars("street number")>> ELSE << >>)
  \o (IF addr.StreetName = << >> THEN <<Chars("street name")>> ELSE << >>)
  \o (IF addr.City = << >> THEN <<Chars("city")>> ELSE << >>)
  \o (IF addr.State = << >> THEN <<Chars("state")>>
      ELSE IF ~isValidState(addr.State) THEN <<Chars("valid state")>>
      ELSE << >>)
  \o (IF addr.ZipCode = << >> THEN <<Chars("ZIP code")>> ELSE << >>)

\* the list missingComponents, in the order the code appends to it
missingComponents(addr) ==
  (IF addr.StreetNumber = << >> THEN <<Chars("street number")>> ELSE << >>)
  \o (IF addr.StreetName = << >> THEN <<Chars("street name")>> ELSE << >>)
  \o (IF addr.City = << >> THEN <<Chars("city")>> ELSE << >>)
  \o (IF addr.State = << >> THEN <<Chars("state")>>
      ELSE IF ~isValidState(addr.State) THEN <<Chars("valid state")>>
      ELSE << >>)
  \o (IF addr.ZipCode = << >> THEN <<Chars("ZIP code")>>
      ELSE IF ~isValidZipCode(addr.ZipCode) THEN <<Chars("valid ZIP code")>>
      ELSE << >>)

\* the list correctedComponents: nothing is ever appended to it
correctedComponents(addr) == << >>

\* validateComponents falling off its end with the zero validationResult
validateComponentsNoFinalReturn(addr) ==
  IF addr = Nil
  THEN [status |-> StatusUnverifiable,
        message |-> Chars("Unable to parse address")]
  ELSE IF Len(missingComponents(addr)) > MaxMissing
  THEN [status |-> StatusUnverifiable,
        message |-> Chars("Missing critical components: ")
                      \o Join(missingComponents(addr), <<",", " ">>)]
  ELSE IF Len(missingComponents(addr)) > 0
  THEN [status |-> StatusCorrected,
        message |-> Chars("Address standardized but missing: ")
                      \o Join(missingComponents(addr), <<",", " ">>)]
  ELSE [status |-> "", message |-> << >>]

validateComponents(addr) ==
  IF addr = Nil
  THEN [status |-> StatusUnverifiable,
        message |-> Chars("Unable to parse address")]
  ELSE IF Len(missingComponents(addr)) > MaxMissing
  THEN [status |-> StatusUnverifiable,
        message |-> Chars("Missing critical components: ")
                      \o Join(missingComponents(addr), <<",", " ">>)]
  ELSE IF Len(missingComponents(addr)) > 0
  THEN [status |-> StatusCorrected,
        message |-> Chars("Address standardized but missing: ")
                      \o Join(missingComponents(addr), <<",", " ">>)]
  ELSE IF Len(correctedComponents(addr)) > 0
  THEN [status |-> StatusCorrected,
        message |-> Chars("Address standardized with corrections: ")
                      \o Join(correctedComponents(addr), <<",", " ">>)]
  ELSE [status |-> StatusValid,
        message |-> Chars("Address is valid and standardized")]

(***************************************************************************)
(* IEEE-754 binary64 arithmetic, as far as calculateConfidence needs it    *)
(*                                                                         *)
(* A number is a sign and a magnitude counted in units of 2^-60, held in   *)
(* three limbs <<high, middle, low>> of 20 bits (the high limb may exceed  *)
(* them).  Every operation computes the exact result and rounds it to 53   *)
(* significant bits, ties to even, as the hardware does.                   *)
(***************************************************************************)
LimbBase == 2^20

RECURSIVE Log2(_)
Log2(n) == IF n < 2 THEN 0 ELSE 1 + Log2(n \div 2)

MagLess(a, b) ==
  \/ a[1] < b[1]
  \/ a[1] = b[1] /\ a[2] < b[2]
  \/ a[1] = b[1] /\ a[2] = b[2] /\ a[3] < b[3]

MagAdd(a, b) ==
  LET s0 == a[3] + b[3]
      s1 == a[2] + b[2] + s0 \div LimbBase
  IN <<a[1] + b[1] + s1 \div LimbBase, s1 % LimbBase, s0 % LimbBase>>

\* a - b for a >= b
MagSub(a, b) ==
  LET d0 == a[3] - b[3]
      b0 == IF d0 < 0 THEN 1 ELSE 0
      d1 == a[2] - b[2] - b0
      b1 == IF d1 < 0 THEN 1 ELSE 0
  IN <<a[1] - b[1] - b1, d1 + b1 * LimbBase, d0 + b0 * LimbBase>>

MagMulInt(a, k) ==
  LET p0 == a[3] * k
      p1 == a[2] * k + p0 \div LimbBase
  IN <<a[1] * k + p1 \div LimbBase, p1 % LimbBase, p0 % LimbBase>>

\* round a magnitude to 53 significant bits, ties to even; sticky tells
\* that the exact value lies above the magnitude given.  A magnitude below
\* 2^53 units is representable as it is.
RoundMag(m, sticky) ==
  IF m[1] < 2^13 THEN m
  ELSE LET unit == 2^(Log2(m[1]) - 12)
           r == m[3] % unit
           kept == <<m[1], m[2], m[3] - r>>
           odd == ((m[3] - r) \div unit) % 2 = 1
           up == \/ 2 * r > unit
                 \/ 2 * r = unit /\ (sticky \/ odd)
       IN IF up THEN MagAdd(kept, <<0, 0, unit>>) ELSE kept

Zero == <<0, 0, 0>>
Double(neg, m) == [neg |-> neg /\ m # Zero, m |-> m]

\* the binary64 value of the decimal literal p/q, 0 <= p <= q <= 100
Literal(p, q) ==
  LET n2 == (p * LimbBase) \div q
      r2 == (p * LimbBase) % q
      n1 == (r2 * LimbBase) \div q
      r1 == (r2 * LimbBase) % q
      n0 == (r1 * LimbBase) \div q
      r0 == (r1 * LimbBase) % q
  IN Double(FALSE, RoundMag(<<n2, n1, n0>>, r0 # 0))

DAdd(x, y) ==
  IF x.neg = y.neg THEN Double(x.neg, RoundMag(MagAdd(x.m, y.m), FALSE))
  ELSE IF MagLess(x.m, y.m)
       THEN Double(y.neg, RoundMag(MagSub(y.m, x.m), FALSE))
       ELSE Double(x.neg, RoundMag(MagSub(x.m, y.m), FALSE))

DSub(x, y) == DAdd(x, Double(~y.neg, y.m))

\* x < y
DLess(x, y) ==
  IF x.neg # y.neg THEN x.neg
  ELSE IF x.neg THEN MagLess(y.m, x.m)
  ELSE MagLess(x.m, y.m)

\* Math.max / Math.min
DMax(x, y) == IF DLess(x, y) THEN y ELSE x
DMin(x, y) == IF DLess(y, x) THEN y ELSE x

\* k * x for a small non-negative integer k
DMulInt(k, x) == Double(x.neg, RoundMag(MagMulInt(x.m, k), FALSE))

\* Math.round(x) for x >= 0: floor(x + 0.5)
MathRound(x) == (x.m[1] + LimbBase \div 2) \div LimbBase

(***************************************************************************)
(* TypeScript engine: addressValidator.ts                                  *)
(***************************************************************************)
\* null and undefined of JavaScript; neither is a character sequence
JsNull == <<"null">>
JsUndefined == <<"undefined">>
\* a string | null value is truthy unless it is null or empty
Truthy(v) == v # JsNull /\ v # << >>

\* stateAbbreviations: lower-case full name -> code, the 51 entries of the
\* Go table the other way round
stateAbbreviations ==
  {<<ToLower(Chars(StateTable[i][2])), Chars(StateTable[i][1])>> :
     i \in 1..Len(StateTable)}

streetAbbreviations ==
  { <<Chars("st"), Chars("Street")>>, <<Chars("ave"), Chars("Avenue")>>,
    <<Chars("blvd"), Chars("Boulevard")>>, <<Chars("dr"), Chars("Drive")>>,
    <<Chars("rd"), Chars("Road")>>, <<Chars("ct"), Chars("Court")>>,
    <<Chars("cir"), Chars("Circle")>>, <<Chars("ln"), Chars("Lane")>>,
    <<Chars("way"), Chars("Way")>>, <<Chars("pl"), Chars("Place")>>,
    <<Chars("pkwy"), Chars("Parkway")>>, <<Chars("ter"), Chars("Terrace")>>,
    <<Chars("sq"), Chars("Square")>>, <<Chars("hwy"), Chars("Highway")>> }

directions ==
  { <<Chars("n"), Chars("North")>>, <<Chars("s"), Chars("South")>>,
    <<Chars("e"), Chars("East")>>, <<Chars("w"), Chars("West")>>,
    <<Chars("ne"), Chars("Northeast")>>, <<Chars("nw"), Chars("Northwest")>>,
    <<Chars("se"), Chars("Southeast")>>, <<Chars("sw"), Chars("Southwest")>> }

\* table[key], << >> when the key is absent
Lookup(table, key) ==
  IF \E e \in table : e[1] = key
  THEN (CHOOSE e \in table : e[1] = key)[2]
  ELSE << >>

normalizeAddress(address) ==
  LET trimmed == TrimSpace(ToLower(address))
  IN CollapseSpaces([i \in 1..Len(trimmed) |->
                       IF trimmed[i] \in {",", "."} THEN " " ELSE trimmed[i]])

\* split(' ').filter(part => part.length > 0)
SplitParts(s) == FieldsFrom(s, 1, {" "})

RemoveAt(seq, i) == SubSeq(seq, 1, i - 1) \o SubSeq(seq, i + 1, Len(seq))

\* /\b(\d{5}(?:-\d{4})?)\b/ tried at position i: group 1, << >> when the
\* pattern does not match there
ZipMatchAt(s, i) ==
  IF i + 4 > Len(s) THEN << >>
  ELSE IF WordBoundary(s, i) /\ AllIn(s, i, i + 4, DigitSet)
       THEN IF /\ i + 9 <= Len(s)
               /\ s[i+5] = "-"
               /\ AllIn(s, i + 6, i + 9, DigitSet)
               /\ WordBoundary(s, i + 10)
            THEN SubSeq(s, i, i + 9)
            ELSE IF WordBoundary(s, i + 5) THEN SubSeq(s, i, i + 4)
            ELSE << >>
       ELSE << >>

\* group 1 of the leftmost match from i on, << >> when the part has none
ZipMatchFrom(s, i) ==
  LET hits == {j \in i..(Len(s) - 4) : ZipMatchAt(s, j) # << >>}
  IN IF hits = {} THEN << >>
     ELSE ZipMatchAt(s, CHOOSE j \in hits : \A k \in hits : j <= k)

\* the last index up to i whose part holds a ZIP, 0 when none
RECURSIVE LastZipPart(_, _)
LastZipPart(parts, i) ==
  IF i < 1 THEN 0
  ELSE IF ZipMatchFrom(parts[i], 1) # << >> THEN i
  ELSE LastZipPart(parts, i - 1)

\* the functions that splice `parts` return the value and the new parts
extractZipCode(parts) ==
  LET i == LastZipPart(parts, Len(parts))
  IN IF i = 0 THEN [value |-> JsNull, parts |-> parts]
     ELSE [value |-> ZipMatchFrom(parts[i], 1), parts |-> RemoveAt(parts, i)]

\* stateAbbreviations[part] || part.toUpperCase() when the part is a state
StateOfPart(p) ==
  LET part == ToLower(p)
  IN IF Lookup(stateAbbreviations, part) # << >>
     THEN Lookup(stateAbbreviations, part)
     ELSE IF ToUpper(part) \in {e[2] : e \in stateAbbreviations}
          THEN ToUpper(part)
          ELSE << >>

RECURSIVE LastStatePart(_, _)
LastStatePart(parts, i) ==
  IF i < 1 THEN 0
  ELSE IF StateOfPart(parts[i]) # << >> THEN i
  ELSE LastStatePart(parts, i - 1)

extractState(parts) ==
  LET i == LastStatePart(parts, Len(parts))
  IN IF i = 0 THEN [value |-> JsNull, parts |-> parts]
     ELSE [value |-> StateOfPart(parts[i]), parts |-> RemoveAt(parts, i)]

\* /^\d+[A-Za-z]?$/
IsStreetNumber(p) ==
  LET d == RunEnd(p, 1, DigitSet)
  IN d >= 1 /\ (d = Len(p) \/ (d = Len(p) - 1 /\ p[Len(p)] \in LetterSet))

extractStreetNumber(parts) ==
  IF Len(parts) > 0 /\ IsStreetNumber(parts[1])
  THEN [value |-> [parts[1] EXCEPT ![Len(parts[1])] = ToUpperC(@)],
        parts |-> Tail(parts)]
  ELSE [value |-> JsNull, parts |-> parts]

expandStreetType(streetName) ==
  LET words == FieldsFrom(streetName, 1, {" "})
      full == Lookup(streetAbbreviations, ToLower(words[Len(words)]))
  IN IF full # << >>
     THEN [expanded |-> Join([words EXCEPT ![Len(words)] = full], <<" ">>),
           corrected |-> TRUE]
     ELSE [expanded |-> streetName, corrected |-> FALSE]

expandDirections(streetName) ==
  LET words == FieldsFrom(streetName, 1, {" "})
      hit(w) == Lookup(directions, ToLower(w)) # << >>
  IN [expanded |-> Join([i \in 1..Len(words) |->
                           IF hit(words[i])
                           THEN Lookup(directions, ToLower(words[i]))
                           ELSE words[i]], <<" ">>),
      corrected |-> \E i \in 1..Len(words) : hit(words[i])]

\* calculateConfidence with the ZIP penalty applied when a ZIP is present
calculateConfidenceZipInverted(parsed, corrections) ==
  LET c0 == Literal(9, 10)
      c1 == IF ~Truthy(parsed.streetNumber)
            THEN DSub(c0, Literal(2, 10)) ELSE c0
      c2 == IF ~Truthy(parsed.streetName)
            THEN DSub(c1, Literal(3, 10)) ELSE c1
      c3 == IF ~Truthy(parsed.city) THEN DSub(c2, Literal(2, 10)) ELSE c2
      c4 == IF ~Truthy(parsed.state) THEN DSub(c3, Literal(2, 10)) ELSE c3
      c5 == IF Truthy(parsed.zipCode) THEN DSub(c4, Literal(1, 10)) ELSE c4
      c6 == DSub(c5, DMulInt(Len(corrections), Literal(5, 100)))
  IN DMax(Literal(1, 10), DMin(Literal(1, 1), c6))

\* calculateConfidence returning the sum without clamping it
calculateConfidenceNoClamp(parsed, corrections) ==
  LET c0 == Literal(9, 10)
      c1 == IF ~Truthy(parsed.streetNumber)
            THEN DSub(c0, Literal(2, 10)) ELSE c0
      c2 == IF ~Truthy(parsed.streetName)
            THEN DSub(c1, Literal(3, 10)) ELSE c1
      c3 == IF ~Truthy(parsed.city) THEN DSub(c2, Literal(2, 10)) ELSE c2
      c4 == IF ~Truthy(parsed.state) THEN DSub(c3, Literal(2, 10)) ELSE c3
      c5 == IF ~Truthy(parsed.zipCode) THEN DSub(c4, Literal(1, 10)) ELSE c4
  IN DSub(c5, DMulInt(Len(corrections), Literal(5, 100)))

calculateConfidence(parsed, corrections) ==
  LET c0 == Literal(9, 10)
      c1 == IF ~Truthy(parsed.streetNumber)
            THEN DSub(c0, Literal(2, 10)) ELSE c0
      c2 == IF ~Truthy(parsed.streetName)
            THEN DSub(c1, Literal(3, 10)) ELSE c1
      c3 == IF ~Truthy(parsed.city) THEN DSub(c2, Literal(2, 10)) ELSE c2
      c4 == IF ~Truthy(parsed.state) THEN DSub(c3, Literal(2, 10)) ELSE c3
      c5 == IF ~Truthy(parsed.zipCode) THEN DSub(c4, Literal(1, 10)) ELSE c4
      c6 == DSub(c5, DMulInt(Len(corrections), Literal(5, 100)))
  IN DMax(Literal(1, 10), DMin(Literal(1, 1), c6))

\* Math.round(confidence * 100) / 100, given as the number of hundredths
RoundToHundredths(confidence) == MathRound(DMulInt(100, confidence))

\* /\b(street|st|avenue|ave|road|rd|drive|dr|lane|ln|way|court|ct|circle|
\*    cir|boulevard|blvd|place|pl)\b/i
streetIndicators ==
  { Chars("street"), Chars("st"), Chars("avenue"), Chars("ave"),
    Chars("road"), Chars("rd"), Chars("drive"), Chars("dr"), Chars("lane"),
    Chars("ln"), Chars("way"), Chars("court"), Chars("ct"), Chars("circle"),
    Chars("cir"), Chars("boulevard"), Chars("blvd"), Chars("place"),
    Chars("pl") }

HasStreetIndicator(s) ==
  \E i \in 1..Len(s) : \E w \in streetIndicators : MatchWordAt(s, i, w)

\* the split of the remaining parts into city and street name
SplitCityStreet(parts, streetNumber) ==
  IF Len(parts) = 0 THEN [city |-> JsNull, streetName |-> JsNull]
  ELSE IF Len(parts) >= 2
  THEN IF Lookup(streetAbbreviations, ToLower(parts[Len(parts)])) # << >>
       THEN [city |-> JsNull, streetName |-> Join(parts, <<" ">>)]
       ELSE [city |-> parts[Len(parts)],
             streetName |-> Join(SubSeq(parts, 1, Len(parts) - 1), <<" ">>)]
  ELSE IF Truthy(streetNumber) \/ HasStreetIndicator(parts[1])
       THEN [city |-> JsNull, streetName |-> parts[1]]
       ELSE [city |-> parts[1], streetName |-> JsNull]

\* streetName.replace(/\b\w/g, l => l.toUpperCase())
CapitalizeWords(s) ==
  [i \in 1..Len(s) |->
     IF IsWordAt(s, i) /\ ~IsWordAt(s, i - 1) THEN ToUpperC(s[i]) ELSE s[i]]

\* city.charAt(0).toUpperCase() + city.slice(1).toLowerCase()
CapitalizeFirst(s) ==
  [i \in 1..Len(s) |-> IF i = 1 THEN ToUpperC(s[i]) ELSE ToLowerC(s[i])]

\* the parts of `formatted`, before filter and join
FormattedParts(streetNumber, streetName, city, state, zipCode) ==
  << IF Truthy(streetNumber) /\ Truthy(streetName)
     THEN streetNumber \o <<" ">> \o streetName
     ELSE IF Truthy(streetName) THEN streetName ELSE << >>,
     city,
     IF Truthy(state) /\ Truthy(zipCode) THEN state \o <<" ">> \o zipCode
     ELSE IF Truthy(state) THEN state
     ELSE IF Truthy(zipCode) THEN zipCode ELSE << >> >>

\* validateAddress; `calls` lists the functions of the module it invoked
validateAddress(address) ==
  Let(SplitParts(normalizeAddress(address)), LAMBDA parts0 :
    IF Len(parts0) = 0
    THEN [status |-> StatusUnverifiable, confidence |-> 0,
          original |-> address, validated |-> Nil,
          corrections |-> <<"Empty or invalid address provided">>,
          calls |-> <<"normalizeAddress">>]
    ELSE
  Let(extractZipCode(parts0), LAMBDA zip :
  Let(extractState(zip.parts), LAMBDA st :
  Let(extractStreetNumber(st.parts), LAMBDA num :
  Let(SplitCityStreet(num.parts, num.value), LAMBDA split :
  Let(expandDirections(split.streetName), LAMBDA dir :
  Let(IF Truthy(split.streetName) /\ dir.corrected
      THEN dir.expanded ELSE split.streetName, LAMBDA street1 :
  Let(expandStreetType(street1), LAMBDA typ :
  Let(IF Truthy(street1) /\ typ.corrected
      THEN typ.expanded ELSE street1, LAMBDA street2 :
  Let((IF Truthy(split.streetName) /\ dir.corrected
       THEN <<"Direction abbreviations expanded">> ELSE << >>)
      \o (IF Truthy(split.streetName) /\ typ.corrected
          THEN <<"Street type abbreviation expanded">> ELSE << >>),
      LAMBDA corrections :
  Let(IF Truthy(split.city) THEN CapitalizeFirst(split.city)
      ELSE split.city, LAMBDA city :
  Let(IF Truthy(street2) THEN CapitalizeWords(street2) ELSE street2,
      LAMBDA streetName :
  Let(calculateConfidence(
        [streetNumber |-> num.value, streetName |-> streetName,
         city |-> city, state |-> st.value, zipCode |-> zip.value],
        corrections), LAMBDA confidence :
    [status |->
       IF \/ DLess(confidence, Literal(3, 10))
          \/ (~Truthy(streetName) /\ ~Truthy(city))
       THEN StatusUnverifiable
       ELSE IF Len(corrections) > 0 THEN StatusCorrected
       ELSE StatusValid,
     confidence |-> RoundToHundredths(confidence),
     original |-> address,
     validated |->
       [streetNumber |-> num.value, streetName |-> streetName,
        city |-> city, state |-> st.value, zipCode |-> zip.value,
        formatted |->
          Join(SelectSeq(FormattedParts(num.value, streetName, city,
                                        st.value, zip.value), Truthy),
               <<",", " ">>)],
     corrections |-> IF Len(corrections) > 0 THEN corrections
                     ELSE JsUndefined,
     calls |-> <<"normalizeAddress", "extractZipCode", "extractState",
                 "extractStreetNumber">>
               \o (IF Truthy(split.streetName)
                   THEN <<"expandDirections", "expandStreetType">>
                   ELSE << >>)
               \o <<"calculateConfidence">>])))))))))))))

(***************************************************************************)
(* The requests                                                            *)
(***************************************************************************)
\* the longest run of spaces a generated separator contains
MaxSpaces == 1
\* how far around MaxAddressLen the lengths of the padded requests go
MaxPadDelta == 1

RECURSIVE Spaces(_)
Spaces(n) == IF n = 0 THEN "" ELSE " " \o Spaces(n - 1)

Pad(n) == [i \in 1..n |-> "x"]

\* the examples of the documentation and of the test suite, and requests
\* around the corners of the cleaner and of the parsers
FixedInputs ==
  { "123 Main Street, New York, NY 10001",
    "456 oak st, san francisco, ca 94102",
    "789 Main Street",
    "100 N Main St, Chicago, IL 60601",
    "",
    "123 Main St, Anytown, CA 12345-6789",
    "123 Main Street, Anytown, CA 12345",
    "456 Oak St, Springfield, IL 62701",
    "789 Pine Ave, Los Angeles, California 90210",
    "Main Street, Anytown",
    "Main St, Anytown",
    "123 Main St",
    "xyz",
    "123 Main St., Anytown, CA. 12345",
    "123 mAiN sT, anyTOWN, ca 12345",
    "123A Oak Street, Springfield, IL 62701",
    "123",
    "   ",
    " \t ",
    "@@@@@@",
    "a@b@c@d",
    "1 a", "1 st", "a st", "12 x", "1 Rd", " 1 a ", "9 Way", "1 ln",
    "12 @ Oak St, Rome, CA 12345",
    "12 Oak @ St, Rome @ CA 12345",
    "12 Old Unity Road, Rome, CA 12345",
    "12 Oak Street Apt 4, Rome, CA 12345",
    "12 Oak Street #4, Rome, CA 12345",
    "12 Oak Street Suite 5 Rome CA 12345",
    "12 main-st, Rome, CA 12345",
    "12 Oak St.Ave, Rome, CA 12345",
    "12 Steet Rd, Rome, CA 12345",
    "12 a, CA 12345",
    "12 Oak Road 12345",
    "12 Oak Road 12345-6789",
    "12 Oak St Rome Texas 12345",
    "12 Oak St, New York, New York 10001",
    "Rome, CA 12345-6789",
    "Rome CA 12345-6789",
    "Rome Texas",
    "Kansas City, MO 64101",
    "12 Rome CA 12345 USA",
    "12 Rome CA",
    "12 CA 12345",
    "12 Oak St 12345 CA",
    "Oak St Rome",
    "12 Oak St, Rome, ZZ 12345",
    "12 Oak St, Rome, CA 1234",
    "12 Oak St, Rome, CA 123456",
    "12\tOak St,\tRome,\tCA\t12345" }

\* requests put together from parts: number, street, unit, city, state, ZIP
\* a part followed by an optional comma and n spaces
Glue(part, comma, n) == IF part = "" THEN "" ELSE part \o comma \o Spaces(n)

BuiltInputs ==
  {Glue(num, "", n) \o Glue(IF unit = "" THEN street
                             ELSE Glue(street, "", n) \o unit, comma, n)
     \o Glue(city, comma, n) \o Glue(state, "", n) \o zip :
     num \in {"", "12"},
     street \in {"", "Oak St", "Main Street", "Old Unity Road", "elm-dr"},
     unit \in {"", "apt 4"},
     city \in {"", "Rome", "new york"},
     state \in {"", "CA", "tx", "Ohio", "ZZ"},
     zip \in {"", "12345", "12345-6789", "1234"},
     comma \in {"", ","},
     n \in 1..MaxSpaces}

\* requests whose length is around the limit of the cleaner
PaddedInputs ==
  {Pad(MaxAddressLen + d - Len(base)) \o Chars(base) :
     base \in {"", "12 Oak St, Rome, CA 12345"}, d \in (0 - MaxPadDelta)..MaxPadDelta}

Inputs ==
  {Chars(str) : str \in FixedInputs \cup BuiltInputs} \cup PaddedInputs

(***************************************************************************)
(* Component records and state values handed to the functions when they    *)
(* are exercised on their own                                              *)
(***************************************************************************)
\* the component records a parser can hand to standardizeAddress
ComponentRecords ==
  {[EmptyAddress EXCEPT !.StreetNumber = Chars(num),
                        !.StreetName = Chars(street),
                        !.Unit = Chars(unit),
                        !.City = Chars(city),
                        !.State = Chars(state),
                        !.ZipCode = Chars(zip)] :
     num \in {"", "12"},
     street \in {"", "oak st", "Main Street", "elm-dr", "Steet Rd", "N WAY",
                 "St.Ave", " "},
     unit \in {"", "4"},
     city \in {"", "rome", "New York", " "},
     state \in {"", "CA", "OHIO", "ZZ"},
     zip \in {"", "12345"}}

\* the records validateComponents can be handed: the state is upper-cased
\* by every caller
StandardizedRecords ==
  {[EmptyAddress EXCEPT !.StreetNumber = Chars(num),
                        !.StreetName = Chars(street),
                        !.City = Chars(city),
                        !.State = Chars(state),
                        !.ZipCode = Chars(zip)] :
     num \in {"", "12"}, street \in {"", "Oak Street"},
     city \in {"", "Rome"}, state \in {"", "CA", "ZZ", "TEXAS", "DC"},
     zip \in {"", "12345", "12345-6789", "1234", "123456", "12345-678"}}

\* the values standardizeState is tried on: every code and every full name
\* in several casings and paddings, and values that are neither
StateValues ==
  UNION {{e[1], ToLower(e[1]), e[2], ToLower(e[2]), ToUpper(e[2]),
          <<" ">> \o e[2] \o <<" ">>, <<" ">> \o ToLower(e[1]),
          e[2] \o <<"x">>, <<e[1][1]>>} : e \in getStateAbbreviations}
  \cup {Chars(str) : str \in {"", " ", "ZZ", "zz", "New  York", "Calif",
                              "N.Y.", "C A", "USA", "PR"}}

(***************************************************************************)
(* State                                                                   *)
(***************************************************************************)
VARIABLES
  variant,             \* which engine serves the request: "go" or "ts"
  input,               \* the address text of the request
  pc,                  \* where ValidateAndStandardize / validateAddress is
  cleanedAddress,      \* local of ValidateAndStandardize
  parsedAddress,       \* local of ValidateAndStandardize (a pointer)
  standardizedAddress, \* local of ValidateAndStandardize (the same pointer)
  response,            \* the response being built and returned
  err,                 \* the error returned with it
  calls,               \* the functions of the engine invoked so far
  fn,                  \* the function exercised on its own, if any
  arg,                 \* its argument
  result,              \* its result
  applied,             \* how many times it has been applied
  http                 \* the HTTP request being handled and its response

engineVars == <<variant, input, pc, cleanedAddress, parsedAddress,
                standardizedAddress, response, err, calls>>
unitVars == <<fn, arg, result, applied>>
vars == <<engineVars, unitVars, http>>

NoError == "nil"
NotReturned == "none"

newResponse(address) ==
  [Status |-> "", OriginalAddress |-> address, ValidatedAddress |-> Nil,
   Message |-> << >>]

\* no request is being served
EngineIdle ==
  /\ variant = "none"
  /\ input = << >>
  /\ pc = "idle"
  /\ cleanedAddress = << >>
  /\ parsedAddress = Nil
  /\ standardizedAddress = Nil
  /\ response = Nil
  /\ err = NotReturned
  /\ calls = << >>

\* no function is exercised on its own
UnitIdle ==
  /\ fn = "none"
  /\ arg = Nil
  /\ result = Nil
  /\ applied = 0

Init ==
  /\ variant \in {"go", "ts"}
  /\ input \in Inputs
  /\ pc = "start"
  /\ cleanedAddress = << >>
  /\ parsedAddress = Nil
  /\ standardizedAddress = Nil
  /\ response = Nil
  /\ err = NotReturned
  /\ calls = << >>
  /\ UnitIdle
  /\ http = Nil

(***************************************************************************)
(* Go engine: ValidateAndStandardize, one action per stage it calls        *)
(***************************************************************************)
\* response := &AddressResponse{...}; cleanedAddress := av.cleanAddress(...)
CallCleanAddress ==
  /\ variant = "go"
  /\ pc = "start"
  /\ cleanedAddress' = cleanAddress(input)
  /\ calls' = Append(calls, "cleanAddress")
  /\ IF cleanedAddress' = << >>
     THEN /\ response' =
               [newResponse(input) EXCEPT
                  !.Status = StatusUnverifiable,
                  !.Message = Chars("Address is empty or contains only invalid characters")]
          /\ err' = NoError
          /\ pc' = "done"
     ELSE /\ response' = newResponse(input)
          /\ err' = err
          /\ pc' = "parse"
  /\ UNCHANGED <<variant, input, parsedAddress, standardizedAddress>>
  /\ UNCHANGED unitVars
  /\ UNCHANGED http

\* ValidateAndStandardize without the nil check after parseAddress
CallParseAddressNoNilCheck ==
  /\ variant = "go"
  /\ pc = "parse"
  /\ parsedAddress' = parseAddress(cleanedAddress)
  /\ calls' = calls \o <<"parseAddress", ParseStrategy(cleanedAddress)>>
  /\ pc' = "standardize"
  /\ UNCHANGED <<variant, input, cleanedAddress, standardizedAddress,
                 response, err>>
  /\ UNCHANGED unitVars
  /\ UNCHANGED http

\* parsedAddress := av.parseAddress(cleanedAddress)
CallParseAddress ==
  /\ variant = "go"
  /\ pc = "parse"
  /\ parsedAddress' = parseAddress(cleanedAddress)
  /\ calls' = calls \o <<"parseAddress", ParseStrategy(cleanedAddress)>>
  /\ IF parsedAddress' = Nil
     THEN /\ response' =
               [response EXCEPT
                  !.Status = StatusUnverifiable,
                  !.Message = Chars("Unable to parse address components")]
          /\ err' = NoError
          /\ pc' = "done"
     ELSE /\ response' = response
          /\ err' = err
          /\ pc' = "standardize"
  /\ UNCHANGED <<variant, input, cleanedAddress, standardizedAddress>>
  /\ UNCHANGED unitVars
  /\ UNCHANGED http

\* standardizedAddress := av.standardizeAddress(parsedAddress): the struct
\* is rewritten in place and both locals point to it
CallStandardizeAddress ==
  /\ variant = "go"
  /\ pc = "standardize"
  /\ \E addr \in standardizeAddress(parsedAddress) :
       /\ standardizedAddress' = addr
       /\ parsedAddress' = addr
  /\ calls' = Append(calls, "standardizeAddress")
  /\ pc' = "validate"
  /\ UNCHANGED <<variant, input, cleanedAddress, response, err>>
  /\ UNCHANGED unitVars
  /\ UNCHANGED http

\* validationResult := av.validateComponents(standardizedAddress); return
CallValidateComponents ==
  /\ variant = "go"
  /\ pc = "validate"
  /\ response' =
       [response EXCEPT
          !.ValidatedAddress = standardizedAddress,
          !.Status = validateComponents(standardizedAddress).status,
          !.Message = validateComponents(standardizedAddress).message]
  /\ calls' = Append(calls, "validateComponents")
  /\ err' = NoError
  /\ pc' = "done"
  /\ UNCHANGED <<variant, input, cleanedAddress, parsedAddress,
                 standardizedAddress>>
  /\ UNCHANGED unitVars
  /\ UNCHANGED http

(***************************************************************************)
(* TypeScript engine: validateAddress runs to its return in one step       *)
(***************************************************************************)
ValidateAddress ==
  /\ variant = "ts"
  /\ pc = "start"
  /\ response' = [f \in {"status", "confidence", "original", "validated",
                         "corrections"} |-> validateAddress(input)[f]]
  /\ calls' = validateAddress(input).calls
  /\ err' = NoError
  /\ pc' = "done"
  /\ UNCHANGED <<variant, input, cleanedAddress, parsedAddress,
                 standardizedAddress>>
  /\ UNCHANGED unitVars
  /\ UNCHANGED http

Next ==
  \/ CallCleanAddress
  \/ CallParseAddress
  \/ CallStandardizeAddress
  \/ CallValidateComponents
  \/ ValidateAddress

Spec == Init /\ [][Next]_vars

(***************************************************************************)
(* The functions exercised on their own                                    *)
(***************************************************************************)
InitStandardize ==
  /\ EngineIdle
  /\ http = Nil
  /\ fn = "standardizeAddress"
  /\ arg \in ComponentRecords
  /\ result = Nil
  /\ applied = 0

\* r1 := standardizeAddress(r)
ApplyStandardizeAddress ==
  /\ fn = "standardizeAddress"
  /\ applied = 0
  /\ result' \in standardizeAddress(arg)
  /\ applied' = 1
  /\ UNCHANGED <<fn, arg>>
  /\ UNCHANGED engineVars
  /\ UNCHANGED http

\* r2 := standardizeAddress(r1); arg keeps r1
ReapplyStandardizeAddress ==
  /\ fn = "standardizeAddress"
  /\ applied = 1
  /\ arg' = result
  /\ result' \in standardizeAddress(result)
  /\ applied' = 2
  /\ UNCHANGED fn
  /\ UNCHANGED engineVars
  /\ UNCHANGED http

NextStandardize == ApplyStandardizeAddress \/ ReapplyStandardizeAddress

SpecStandardize == InitStandardize /\ [][NextStandardize]_vars

InitState ==
  /\ EngineIdle
  /\ http = Nil
  /\ fn = "standardizeState"
  /\ arg \in StateValues
  /\ result = Nil
  /\ applied = 0

ApplyStandardizeState ==
  /\ fn = "standardizeState"
  /\ applied = 0
  /\ result' \in standardizeState(arg)
  /\ applied' = 1
  /\ UNCHANGED <<fn, arg>>
  /\ UNCHANGED engineVars
  /\ UNCHANGED http

NextState == ApplyStandardizeState

SpecState == InitState /\ [][NextState]_vars

InitValidate ==
  /\ EngineIdle
  /\ http = Nil
  /\ fn = "validateComponents"
  /\ arg \in StandardizedRecords
  /\ result = Nil
  /\ applied = 0

ApplyValidateComponents ==
  /\ fn = "validateComponents"
  /\ applied = 0
  /\ result' = validateComponents(arg)
  /\ applied' = 1
  /\ UNCHANGED <<fn, arg>>
  /\ UNCHANGED engineVars
  /\ UNCHANGED http

NextValidate == ApplyValidateComponents

SpecValidate == InitValidate /\ [][NextValidate]_vars

\* the two notes validateAddress can push: one for directions, one for the
\* street type
MaxCorrections == 2

\* the records validateAddress hands to calculateConfidence: each component
\* present or null, and notes only when there is a street name
ParsedRecords ==
  [streetNumber : {JsNull, Chars("12")},
   streetName : {JsNull, Chars("Oak Street")},
   city : {JsNull, Chars("Rome")},
   state : {JsNull, Chars("CA")},
   zipCode : {JsNull, Chars("12345")}]

CorrectionLists ==
  {SubSeq(<<"Direction abbreviations expanded",
            "Street type abbreviation expanded">>, 1, n) :
     n \in 0..MaxCorrections}

ConfidenceArgs ==
  {a \in [parsed : ParsedRecords, corrections : CorrectionLists] :
     Truthy(a.parsed.streetName) \/ a.corrections = << >>}

\* the confidence a response carries, in hundredths
ReturnedConfidence(parsed, corrections) ==
  RoundToHundredths(calculateConfidence(parsed, corrections))

InitConfidence ==
  /\ EngineIdle
  /\ http = Nil
  /\ fn = "calculateConfidence"
  /\ arg \in ConfidenceArgs
  /\ result = Nil
  /\ applied = 0

ApplyCalculateConfidence ==
  /\ fn = "calculateConfidence"
  /\ applied = 0
  /\ result' = ReturnedConfidence(arg.parsed, arg.corrections)
  /\ applied' = 1
  /\ UNCHANGED <<fn, arg>>
  /\ UNCHANGED engineVars
  /\ UNCHANGED http

NextConfidence == ApplyCalculateConfidence

SpecConfidence == InitConfidence /\ [][NextConfidence]_vars

(***************************************************************************)
(* HTTP transport (main.go): POST /validate-address                        *)
(***************************************************************************)
\* encoding/json on the request bodies below: an object whose members are
\* strings without escapes, integers or null.  JsonValueEnd is the index of
\* the last character of the scalar that starts at i, 0 if there is none.
JsonValueEnd(s, i) ==
  IF i > Len(s) THEN 0
  ELSE IF s[i] = "\""
    THEN LET closing == {j \in (i + 1)..Len(s) : s[j] = "\""}
         IN IF closing = {} THEN 0
            ELSE CHOOSE j \in closing : \A k \in closing : j <= k
  ELSE IF s[i] \in DigitSet THEN RunEnd(s, i, DigitSet)
  ELSE IF i + 3 <= Len(s) /\ SubSeq(s, i, i + 3) = Chars("null") THEN i + 3
  ELSE 0

\* the members of an object from index i on, stored into req; `first` is
\* true right after the opening brace
RECURSIVE DecodeMembers(_, _, _, _)
DecodeMembers(s, i, req, first) ==
  LET syntaxError == [err |-> "syntax", Address |-> << >>, end |-> 0]
  IN Let(RunEnd(s, i, {" ", "\t", "\n", "\r"}) + 1, LAMBDA k :
     IF k > Len(s) THEN syntaxError
     ELSE IF s[k] = "}" /\ first
       THEN [err |-> req.err, Address |-> req.Address, end |-> k]
     ELSE IF s[k] # "\"" THEN syntaxError
     ELSE Let(JsonValueEnd(s, k), LAMBDA ke :
       IF ke = 0 THEN syntaxError
       ELSE Let(RunEnd(s, ke + 1, {" ", "\t", "\n", "\r"}) + 1, LAMBDA c :
         IF c > Len(s) \/ s[c] # ":" THEN syntaxError
         ELSE Let(RunEnd(s, c + 1, {" ", "\t", "\n", "\r"}) + 1, LAMBDA v :
           Let(JsonValueEnd(s, v), LAMBDA ve :
             IF ve = 0 THEN syntaxError
             ELSE Let(
               IF ~EqualFold(SubSeq(s, k + 1, ke - 1), Chars("address"))
                 THEN req
               ELSE IF s[v] = "\""
                 THEN [req EXCEPT !.Address = SubSeq(s, v + 1, ve - 1)]
               ELSE IF s[v] \in DigitSet /\ req.err = NoError
                 THEN [req EXCEPT !.err = "type"]
               ELSE req, LAMBDA req2 :
               Let(RunEnd(s, ve + 1, {" ", "\t", "\n", "\r"}) + 1, LAMBDA n :
                 IF n > Len(s) THEN syntaxError
                 ELSE IF s[n] = "}"
                   THEN [err |-> req2.err, Address |-> req2.Address,
                         end |-> n]
                 ELSE IF s[n] = ","
                   THEN DecodeMembers(s, n + 1, req2, FALSE)
                 ELSE syntaxError)))))))

\* var req AddressRequest; json.NewDecoder(r.Body).Decode(&req): the first
\* JSON value of the body is read and stored; `end` is its last character
\* and what follows it is left unread
Decode(body) ==
  LET req == [err |-> NoError, Address |-> << >>]
  IN Let(RunEnd(body, 1, {" ", "\t", "\n", "\r"}) + 1, LAMBDA i :
     IF i > Len(body) THEN [err |-> "EOF", Address |-> << >>, end |-> 0]
     ELSE IF body[i] = "{" THEN DecodeMembers(body, i + 1, req, TRUE)
     ELSE Let(JsonValueEnd(body, i), LAMBDA e :
       IF e = 0 THEN [err |-> "syntax", Address |-> << >>, end |-> 0]
       ELSE IF body[i] = "n" THEN [err |-> NoError, Address |-> << >>, end |-> e]
       ELSE [err |-> "type", Address |-> << >>, end |-> e]))

\* request bodies: well-formed and malformed ones, with the address present,
\* empty, null, of another type or missing
Bodies ==
  { Chars(str) : str \in
    { "{\"address\":\"123 Main Street, New York, NY 10001\"}",
      "{\"address\": \"456 oak st, san francisco, ca 94102\"}",
      " { \"address\" : \"789 Main Street\" } ",
      "{\"address\":\"12 Oak St Apt 4, Rome, CA 12345-6789\"}\n",
      "{\"address\":\"Rome, CA 12345\"}",
      "{\"address\":\"1 a\"}",
      "{\"address\":\"@@@\"}",
      "{\"address\":\" \"}",
      "{\"address\":\"Springfield\"}",
      "{\"address\":\"\"}",
      "{\"address\":null}",
      "{\"address\":12345}",
      "{\"id\":7,\"address\":\"12 Oak Rd, Rome, California 12345\"}",
      "{\"id\":7}",
      "{\"street\":\"12 Oak Rd\"}",
      "{}",
      "null",
      "12345",
      "\"12 Oak Rd, Rome, CA 12345\"",
      "",
      " ",
      "address=12 Oak Rd",
      "{\"address\":\"12 Oak Rd, Rome, CA 12345\"",
      "{\"address\":\"12 Oak Rd, Rome, CA 12345",
      "{\"address\" \"12 Oak Rd, Rome, CA 12345\"}",
      "{\"address\":\"12 Oak Rd, Rome, CA 12345\",}",
      "{address:\"12 Oak Rd, Rome, CA 12345\"}",
      "{\"address\":\"12 Oak Rd, Rome, CA 12345\"}}",
      "{\"address\":\"12 Oak Rd, Rome, CA 12345\"} trailing",
      "{\"address\":\"\"} trailing",
      "{\"address\":\"12 Oak Rd, Rome, CA 12345\"}{\"address\":\"\"}" } }

\* w.Header().Set(...); w.WriteHeader(statusCode); Encode({"error": message})
writeErrorResponse(message, statusCode) ==
  [status |-> statusCode, reply |-> [error |-> Chars(message)]]

InitHandler ==
  /\ EngineIdle
  /\ UnitIdle
  /\ http \in [method : {"POST", "GET"}, body : Bodies, status : {0},
               reply : {Nil}]

\* the handler up to its call of ValidateAndStandardize
handleValidateAddress ==
  /\ http # Nil
  /\ http.status = 0
  /\ pc = "idle"
  /\ IF http.method # "POST"
     THEN /\ http' = [http EXCEPT !.status = 405,
                                  !.reply = Chars("Method not allowed")]
          /\ UNCHANGED <<variant, input, pc>>
     ELSE IF Decode(http.body).err # NoError
     THEN /\ http' = [method |-> http.method, body |-> http.body] @@
                     writeErrorResponse("Invalid JSON format", 400)
          /\ UNCHANGED <<variant, input, pc>>
     ELSE IF Decode(http.body).Address = << >>
     THEN /\ http' = [method |-> http.method, body |-> http.body] @@
                     writeErrorResponse("Address field is required", 400)
          /\ UNCHANGED <<variant, input, pc>>
     ELSE /\ variant' = "go"
          /\ input' = Decode(http.body).Address
          /\ pc' = "start"
          /\ http' = http
  /\ UNCHANGED <<cleanedAddress, parsedAddress, standardizedAddress,
                 response, err, calls>>
  /\ UNCHANGED unitVars

\* the handler after ValidateAndStandardize has returned
EncodeResponse ==
  /\ http # Nil
  /\ http.status = 0
  /\ pc = "done"
  /\ http' = IF err # NoError
             THEN [method |-> http.method, body |-> http.body] @@
                  writeErrorResponse("Internal server error", 500)
             ELSE [http EXCEPT !.status = 200, !.reply = response]
  /\ UNCHANGED engineVars
  /\ UNCHANGED unitVars

NextHandler ==
  \/ handleValidateAddress
  \/ CallCleanAddress
  \/ CallParseAddress
  \/ CallStandardizeAddress
  \/ CallValidateComponents
  \/ EncodeResponse

SpecHandler == InitHandler /\ [][NextHandler]_vars

(***************************************************************************)
(* Properties                                                              *)
(***************************************************************************)
\* C1: an input longer than 500 characters gets status unverifiable:
\* cleanAddress returns the empty string and no later stage runs.
C1_LongInputUnverifiable ==
  (variant = "go" /\ Len(input) > 500 /\ pc # "start") =>
     /\ pc = "done"
     /\ cleanedAddress = << >>
     /\ response.Status = "unverifiable"
     /\ calls = <<"cleanAddress">>

C1_Witness ==
  /\ variant = "go"
  /\ pc = "done"
  /\ Len(input) = 501
  /\ response.Status = "unverifiable"

\* C2: an input shorter than 5 characters after trimming gets status
\* unverifiable, from ValidateAndStandardize and from validateAddress alike.
C2_ShortInputUnverifiable ==
  (pc = "done" /\ Len(TrimSpace(input)) < 5) =>
     /\ variant = "go" => response.Status = "unverifiable"
     /\ variant = "ts" => response.status = "unverifiable"

\* C3: ValidateAndStandardize returns, for every input, a response that is
\* not nil, a nil error and one of the three statuses; nothing is returned
\* before that.
C3_AlwaysAResponse ==
  variant = "go" =>
     /\ pc \in {"start", "parse", "standardize", "validate", "done"}
     /\ pc # "done" => err = NotReturned
     /\ pc = "done" =>
          /\ response # Nil
          /\ err = NoError
          /\ response.Status \in {"valid", "corrected", "unverifiable"}

C3_Witness ==
  /\ variant = "go"
  /\ pc = "done"
  /\ "validateComponents" \in {calls[i] : i \in DOMAIN calls}
  /\ response.Status = "corrected"

\* C4: when the cleaner returns the empty string or the parser returns no
\* record, the request ends at once as unverifiable with no validated
\* record (and confidence 0 in TypeScript), and neither the standardizer nor
\* the classifier is invoked.
C4_EarlyReturn ==
  LET invoked == {calls[i] : i \in DOMAIN calls}
  IN /\ ( /\ variant = "go"
          /\ \/ "cleanAddress" \in invoked /\ cleanedAddress = << >>
             \/ "parseAddress" \in invoked /\ parsedAddress = Nil ) =>
            /\ pc = "done"
            /\ response.Status = "unverifiable"
            /\ response.ValidatedAddress = Nil
            /\ "standardizeAddress" \notin invoked
            /\ "validateComponents" \notin invoked
     /\ ( /\ variant = "ts"
          /\ pc = "done"
          /\ SplitParts(normalizeAddress(input)) = << >> ) =>
            /\ response.status = "unverifiable"
            /\ response.confidence = 0
            /\ response.validated = Nil
            /\ calls = <<"normalizeAddress">>

C4_Witness ==
  /\ variant = "go"
  /\ pc = "done"
  /\ cleanedAddress # << >>
  /\ parsedAddress = Nil
  /\ response.Status = "unverifiable"

\* C5: validateComponents counts the absent ones among street number,
\* street name, city, state and ZIP, plus one for a present state that is
\* not a known code, plus one for a present ZIP that is neither five digits
\* nor five-dash-four; the status is valid iff the count is 0, corrected iff
\* it is 1 or 2, unverifiable iff it is more than 2.
C5_StatusByCount ==
  LET isZip(z) ==
        \/ Len(z) = 5 /\ \A i \in 1..5 : z[i] \in DigitSet
        \/ /\ Len(z) = 10
           /\ z[6] = "-"
           /\ \A i \in (1..5) \cup (7..10) : z[i] \in DigitSet
      absent == Cardinality({f \in {"StreetNumber", "StreetName", "City",
                                    "State", "ZipCode"} : arg[f] = << >>})
      count == absent
               + (IF arg.State # << >> /\ arg.State \notin StateCodes
                  THEN 1 ELSE 0)
               + (IF arg.ZipCode # << >> /\ ~isZip(arg.ZipCode)
                  THEN 1 ELSE 0)
  IN (fn = "validateComponents" /\ applied = 1) =>
       /\ result.status = "valid" <=> count = 0
       /\ result.status = "corrected" <=> count \in {1, 2}
       /\ result.status = "unverifiable" <=> count > 2

C5_Witness ==
  /\ fn = "validateComponents"
  /\ applied = 1
  /\ arg.StreetNumber # << >>
  /\ arg.StreetName # << >>
  /\ arg.City # << >>
  /\ arg.State = Chars("ZZ")
  /\ arg.ZipCode = Chars("1234")
  /\ result.status = "corrected"

\* C6: an input that has all five components, some of which standardization
\* had to rewrite, gets status corrected; '456 oak st, san francisco, ca
\* 94102' comes back corrected with street 'Oak Street', city 'San
\* Francisco' and state 'CA'.
C6_RewrittenIsCorrected ==
  (variant = "go" /\ pc = "done" /\ response.ValidatedAddress # Nil) =>
     LET parsed == parseAddress(cleanedAddress)
         validated == response.ValidatedAddress
     IN /\ ( /\ \A f \in {"StreetNumber", "StreetName", "City", "State",
                          "ZipCode"} : validated[f] # << >>
             /\ \E f \in {"StreetName", "City", "State"} :
                  validated[f] # parsed[f] ) =>
             response.Status = "corrected"
        /\ input = Chars("456 oak st, san francisco, ca 94102") =>
             /\ response.Status = "corrected"
             /\ validated.StreetName = Chars("Oak Street")
             /\ validated.City = Chars("San Francisco")
             /\ validated.State = Chars("CA")

\* C7: an input '<digits> <street>, <city>, <ST> <5 digits>' in canonical
\* form, ST a known code and no unit keyword in the street, gets status
\* valid with number, street, city, state and ZIP equal to its parts.
C7_CanonicalIsValid ==
  \A num \in {"12", "123"},
     street \in {"Main Street", "Oak Street", "Old Unity Road"},
     city \in {"Rome", "New York", "Anytown"},
     state \in {"CA", "NY"},
     zip \in {"12345", "10001"} :
    ( /\ variant = "go"
      /\ pc = "done"
      /\ input = Chars(num) \o <<" ">> \o Chars(street) \o <<",", " ">>
                   \o Chars(city) \o <<",", " ">> \o Chars(state)
                   \o <<" ">> \o Chars(zip) ) =>
      /\ response.Status = "valid"
      /\ response.ValidatedAddress # Nil
      /\ response.ValidatedAddress.StreetNumber = Chars(num)
      /\ response.ValidatedAddress.StreetName = Chars(street)
      /\ response.ValidatedAddress.City = Chars(city)
      /\ response.ValidatedAddress.State = Chars(state)
      /\ response.ValidatedAddress.ZipCode = Chars(zip)

\* C8: in a record returned by the Go engine the ZIP field, when present,
\* is exactly five digits whatever strategy parsed the input; a +4
\* extension is only ever in the extension field.
C8_ZipIsFiveDigits ==
  ( /\ variant = "go"
    /\ pc = "done"
    /\ response.ValidatedAddress # Nil
    /\ response.ValidatedAddress.ZipCode # << >> ) =>
      /\ Len(response.ValidatedAddress.ZipCode) = 5
      /\ \A i \in 1..5 : response.ValidatedAddress.ZipCode[i] \in DigitSet

\* C9: standardizeAddress is idempotent: applied to its own result it
\* changes no field.
C9_StandardizeIdempotent ==
  (fn = "standardizeAddress" /\ applied = 2) => result = arg

\* C10: standardizeState keeps a known two-letter code, turns a full state
\* name into its code whatever the case of its letters, and leaves every
\* other value unresolved; a code it resolves to is one of the 51 of the
\* table.
C10_StateResolution ==
  LET value == TrimSpace(ToUpper(arg))
      named == {e \in getStateAbbreviations : ToLower(e[2]) = ToLower(value)}
  IN (fn = "standardizeState" /\ applied = 1) =>
       /\ value \in StateCodes => result = value
       /\ (value \notin StateCodes /\ named # {}) =>
            /\ \E e \in named : result = e[1]
            /\ result \in StateCodes
       /\ (value \notin StateCodes /\ named = {}) => result = value
       /\ Cardinality(StateCodes) = 51

C10_Witness ==
  /\ fn = "standardizeState"
  /\ applied = 1
  /\ arg = Chars("new york")
  /\ result = Chars("NY")

\* C11 (as stated): in a response with a validated record the full address
\* is the present clauses '<number> <street>[ <unit>]', '<city>' and
\* '<state> <zip>[-<ext>]' joined by ', '; a clause is present when its
\* required components are: number and street, city, state and ZIP.
C11_FullAddressOfClauses ==
  (variant = "go" /\ pc = "done" /\ response.ValidatedAddress # Nil) =>
    LET r == response.ValidatedAddress
        street == IF r.StreetNumber # << >> /\ r.StreetName # << >>
                  THEN r.StreetNumber \o <<" ">> \o r.StreetName
                       \o (IF r.Unit # << >> THEN <<" ">> \o r.Unit
                           ELSE << >>)
                  ELSE << >>
        state == IF r.State # << >> /\ r.ZipCode # << >>
                 THEN r.State \o <<" ">> \o r.ZipCode
                      \o (IF r.ZipPlus4 # << >> THEN <<"-">> \o r.ZipPlus4
                          ELSE << >>)
                 ELSE << >>
    IN r.FullAddress =
         Join(SelectSeq(<<street, r.City, state>>, LAMBDA c : c # << >>),
              <<",", " ">>)

\* C11 (amended): the same, but the third clause is '<state>[ <zip>[-<ext>]]':
\* it is present whenever the state is, and carries the ZIP (and extension)
\* only when the ZIP is present; a ZIP without a state appears nowhere.
C11_FullAddressStateAlone ==
  (variant = "go" /\ pc = "done" /\ response.ValidatedAddress # Nil) =>
    LET r == response.ValidatedAddress
        street == IF r.StreetNumber # << >> /\ r.StreetName # << >>
                  THEN r.StreetNumber \o <<" ">> \o r.StreetName
                       \o (IF r.Unit # << >> THEN <<" ">> \o r.Unit
                           ELSE << >>)
                  ELSE << >>
        zip == IF r.ZipCode = << >> THEN << >>
               ELSE <<" ">> \o r.ZipCode
                    \o (IF r.ZipPlus4 # << >> THEN <<"-">> \o r.ZipPlus4
                        ELSE << >>)
        state == IF r.State # << >> THEN r.State \o zip ELSE << >>
    IN r.FullAddress =
         Join(SelectSeq(<<street, r.City, state>>, LAMBDA c : c # << >>),
              <<",", " ">>)

C11_Witness ==
  /\ variant = "go"
  /\ pc = "done"
  /\ response.ValidatedAddress # Nil
  /\ response.ValidatedAddress.StreetName = << >>
  /\ response.ValidatedAddress.City # << >>
  /\ response.ValidatedAddress.State # << >>
  /\ response.ValidatedAddress.ZipCode = << >>
  /\ response.ValidatedAddress.FullAddress =
       response.ValidatedAddress.City \o <<",", " ">>
         \o response.ValidatedAddress.State

\* C12: the outcome of ValidateAndStandardize is a function of the input
\* text: the status, the message and the components of a returned response
\* are those of every run on the same input, whatever order the suffix,
\* misspelling and state tables are visited in.
C12_OutcomeDeterministic ==
  (variant = "go" /\ pc = "done" /\ response.ValidatedAddress # Nil) =>
    \A other \in standardizeAddress(parseAddress(cleanAddress(input))) :
      /\ response.ValidatedAddress = other
      /\ response.Status = validateComponents(other).status
      /\ response.Message = validateComponents(other).message

C12_Witness ==
  /\ variant = "go"
  /\ pc = "done"
  /\ input = Chars("12 Oak St.Ave, Rome, CA 12345")
  /\ response.ValidatedAddress # Nil
  /\ response.ValidatedAddress.StreetName = Chars("Oak Street.Avenue")
  /\ response.Status = "valid"

C14_StatusByConfidence ==
  (variant = "ts" /\ pc = "done" /\ response.validated # Nil) =>
    LET v == response.validated
        unverifiable == \/ response.confidence < 30
                        \/ (~Truthy(v.streetName) /\ ~Truthy(v.city))
    IN response.status =
         (IF unverifiable THEN StatusUnverifiable
          ELSE IF response.corrections # JsUndefined THEN StatusCorrected
          ELSE StatusValid)


\* C15: the confidence is ordered by completeness: a record with all five
\* components scores strictly higher than one with only street name and
\* city, which scores strictly higher than a bare street number; and for
\* the same number of correction notes a record whose present components
\* include another's never scores lower.
C15_ConfidenceByCompleteness ==
  (fn = "calculateConfidence" /\ applied = 1) =>
    LET fields == {"streetNumber", "streetName", "city", "state", "zipCode"}
        present(p) == {f \in fields : Truthy(p[f])}
        mine == present(arg.parsed)
    IN /\ \A other \in ConfidenceArgs :
            (/\ Len(other.corrections) = Len(arg.corrections)
             /\ mine \subseteq present(other.parsed)) =>
              ReturnedConfidence(other.parsed, other.corrections) >= result
       /\ mine = fields =>
            \A other \in ConfidenceArgs :
              present(other.parsed) = {"streetName", "city"} =>
                result > ReturnedConfidence(other.parsed, other.corrections)
       /\ mine = {"streetName", "city"} =>
            \A other \in ConfidenceArgs :
              present(other.parsed) = {"streetNumber"} =>
                result > ReturnedConfidence(other.parsed, other.corrections)

C15_Witness ==
  /\ fn = "calculateConfidence"
  /\ applied = 1
  /\ Truthy(arg.parsed.streetName)
  /\ Truthy(arg.parsed.city)
  /\ ~Truthy(arg.parsed.streetNumber)
  /\ ~Truthy(arg.parsed.state)
  /\ ~Truthy(arg.parsed.zipCode)
  /\ Len(arg.corrections) = MaxCorrections
  /\ result = 30


\* C16: the handler answers a POST request whose body is not valid JSON, or
\* whose address field is missing or empty, with status 400 and does not
\* invoke the engine.
C16_BadRequestRejected ==
  (http # Nil /\ http.method = "POST" /\ (http.status # 0 \/ pc # "idle")) =>
    LET decoded == Decode(http.body)
        validJson ==
          /\ decoded.err \notin {"syntax", "EOF"}
          /\ \A j \in (decoded.end + 1)..Len(http.body) :
               http.body[j] \in {" ", "\t", "\n", "\r"}
    IN (~validJson \/ decoded.Address = << >>) =>
         /\ http.status = 400
         /\ pc = "idle"
         /\ calls = << >>

\* C16, the rest of the claim: ValidateAndStandardize is called only with
\* the non-empty address of a decoded request, a 400 is written without
\* calling it, and a 200 carries the response it returned.
C16_EngineOnlyForAddress ==
  http # Nil =>
    /\ pc # "idle" =>
         /\ http.method = "POST"
         /\ Decode(http.body).err = NoError
         /\ Decode(http.body).Address # << >>
         /\ input = Decode(http.body).Address
    /\ http.status \in {400, 405} => (pc = "idle" /\ calls = << >>)
    /\ http.status = 200 =>
         (pc = "done" /\ err = NoError /\ http.reply = response)
    /\ http.status \in {0, 200, 400, 405}


\* C17: a value returned by cleanAddress is the empty string or a string of
\* at least 5 characters without a run of two or more whitespace
\* characters.
C17_CleanedIsCollapsed ==
  (variant = "go" /\ pc # "start" /\ pc # "idle") =>
    \/ cleanedAddress = << >>
    \/ /\ Len(cleanedAddress) >= MinAddressLen
       /\ \A i \in 1..(Len(cleanedAddress) - 1) :
            ~(cleanedAddress[i] \in SpaceSet /\ cleanedAddress[i + 1] \in SpaceSet)


\* C18: parseAddress returns the extraction of the full pattern when it
\* matches the cleaned text, otherwise that of the simple pattern when it
\* matches, and invokes parsePartialAddress only when neither matches.
C18_StrategyOrder ==
  (variant = "go" /\ pc = "standardize") =>
    LET strategy == calls[3]
        full == FullPatternMatch(cleanedAddress)
        simple == SimplePatternMatch(cleanedAddress)
    IN /\ full # NoMatch =>
            (strategy = "full" /\ parsedAddress = parseFullAddress(full))
       /\ (full = NoMatch /\ simple # NoMatch) =>
            (strategy = "simple" /\ parsedAddress = parseSimpleAddress(simple))
       /\ strategy = "partial" <=> (full = NoMatch /\ simple = NoMatch)
       /\ strategy = "partial" =>
            parsedAddress = parsePartialAddress(cleanedAddress)

C18_Witness ==
  /\ variant = "go"
  /\ pc = "standardize"
  /\ calls[3] = "full"
  /\ SimplePatternMatch(cleanedAddress) # NoMatch
  /\ parsedAddress.Unit # << >>
  /\ parsedAddress # parseSimpleAddress(SimplePatternMatch(cleanedAddress))


\* C19: in the partial fallback, once an optional leading street-number
\* token is consumed, the first token that is a state code or state name
\* becomes the state, upper-cased; the tokens before it, joined by spaces,
\* become the city (none if there are none); the token right after it
\* becomes the ZIP iff it is ZIP-shaped; nothing else is filled in.
C19_PartialStateFirst ==
  (variant = "go" /\ pc = "standardize" /\ calls[3] = "partial") =>
    LET tokens == Fields(cleanedAddress)
        parts == IF tokens[1][1] \in DigitSet THEN Tail(tokens) ELSE tokens
        states == {i \in 1..Len(parts) : isState(parts[i])}
    IN states # {} =>
         LET i == CHOOSE j \in states : \A k \in states : j <= k
         IN /\ parsedAddress.State = ToUpper(parts[i])
            /\ parsedAddress.City =
                 (IF i = 1 THEN << >>
                  ELSE Join(SubSeq(parts, 1, i - 1), <<" ">>))
            /\ parsedAddress.ZipCode =
                 (IF i < Len(parts) /\ isZipCode(parts[i + 1])
                  THEN parts[i + 1] ELSE << >>)
            /\ parsedAddress.StreetNumber =
                 (IF tokens[1][1] \in DigitSet THEN tokens[1] ELSE << >>)
            /\ parsedAddress.StreetName = << >>
            /\ parsedAddress.Unit = << >>
            /\ parsedAddress.ZipPlus4 = << >>

C19_Witness ==
  /\ variant = "go"
  /\ pc = "standardize"
  /\ calls[3] = "partial"
  /\ parsedAddress.StreetNumber # << >>
  /\ parsedAddress.City # << >>
  /\ parsedAddress.State # << >>
  /\ parsedAddress.ZipCode = << >>
  /\ Len(Fields(cleanedAddress)) > Len(Fields(parsedAddress.City)) + 2


\* C20: in the partial fallback, when neither city nor state was resolved,
\* the street name is the remaining token sequence, without the token that
\* was taken as the ZIP.
C20_StreetNameExcludesZip ==
  (/\ variant = "go" /\ pc = "standardize" /\ calls[3] = "partial"
   /\ parsedAddress.City = << >> /\ parsedAddress.State = << >>) =>
    LET tokens == Fields(cleanedAddress)
        parts == IF tokens[1][1] \in DigitSet THEN Tail(tokens) ELSE tokens
        zips == {i \in 1..Len(parts) : isZipCode(parts[i])}
        zip == CHOOSE i \in zips : \A k \in zips : i >= k
        rest == IF parsedAddress.ZipCode = << >> THEN parts
                ELSE SubSeq(parts, 1, zip - 1) \o
                     SubSeq(parts, zip + 1, Len(parts))
    IN parsedAddress.StreetName = Join(rest, <<" ">>)

\* C20 for the runs that consumed a street number: the same statement.
C20_NumberedStreetNameExcludesZip ==
  (variant = "go" /\ pc = "standardize" /\ calls[3] = "partial"
   /\ parsedAddress.StreetNumber # << >>) => C20_StreetNameExcludesZip


\* C21: a record produced by parsePartialAddress never has a street name
\* together with a city or a state, and an input handled by it is never
\* classified valid: its status is corrected or unverifiable.
C21_PartialNeverValid ==
  (variant = "go" /\ Len(calls) >= 3 /\ calls[3] = "partial") =>
    /\ (pc = "standardize" /\ parsedAddress.StreetName # << >>) =>
         (parsedAddress.City = << >> /\ parsedAddress.State = << >>)
    /\ pc = "done" =>
         response.Status \in {StatusCorrected, StatusUnverifiable}

C21_Witness ==
  /\ variant = "go"
  /\ pc = "done"
  /\ Len(calls) >= 3
  /\ calls[3] = "partial"
  /\ response.ValidatedAddress # Nil
  /\ response.ValidatedAddress.StreetName # << >>
  /\ response.ValidatedAddress.ZipCode # << >>
  /\ response.Status = StatusCorrected


\* C22: the simple strategy is never selected: a cleaned text the simple
\* pattern matches is matched by the full pattern too, and parseAddress
\* returns the extraction of the full pattern for it.
C22_SimpleNeverSelected ==
  (variant = "go" /\ Len(calls) >= 3) =>
    /\ calls[3] # "simple"
    /\ SimplePatternMatch(cleanedAddress) # NoMatch =>
         /\ FullPatternMatch(cleanedAddress) # NoMatch
         /\ calls[3] = "full"
         /\ pc = "standardize" =>
              parsedAddress =
                parseFullAddress(FullPatternMatch(cleanedAddress))

C22_Witness ==
  /\ variant = "go"
  /\ pc = "standardize"
  /\ calls[3] = "full"
  /\ SimplePatternMatch(cleanedAddress) # NoMatch
  /\ parsedAddress.Unit = << >>
  /\ parsedAddress = parseSimpleAddress(SimplePatternMatch(cleanedAddress))

====
